---- MODULE Spec2Model ----
(***************************************************************************)
(* A model of src/lib.rs of dav1d-rs: the safe wrapper around the dav1d    *)
(* AV1 decoder.  The wrapper's code is modelled statement by statement.    *)
(* The decoder engine (libdav1d) is outside the repository: every call     *)
(* into it is modelled by the set of answers its C interface allows, and   *)
(* the choice among them is nondeterministic.                              *)
(*                                                                         *)
(* Threads: one thread owns the Decoder (its methods take &self or         *)
(* &mut self, so calls on it never overlap); Picture and Plane handles are *)
(* Send + Sync, so their clones and drops interleave freely with the       *)
(* decoder thread's steps; the engine releases input buffers from its own  *)
(* worker threads at any time.                                             *)
(***************************************************************************)
EXTENDS Integers, Sequences, FiniteSets, TLC

\* ------------------------------------------------------------------ bounds
MaxBufs == 1       \* calls of Decoder::decode (one borrowed buffer each)
MaxFrames == 2     \* frames the engine hands out
MaxHandles == 2    \* live Picture + Plane handles per frame
MaxLen == 1        \* longest input buffer, in bytes
IntBits == 4       \* width of c_int and u32 (32 in the build); i64, usize and
                   \* ptrdiff_t are twice as wide
MaxSubmits == 2    \* submissions of one descriptor by one decode call

\* ------------------------------------------------------- program constants
\* lib.rs:15  const AGAIN: i32 = EAGAIN as i32  (EAGAIN is 11 on Linux)
AGAIN == 11

\* Negative statuses other than try-again: -EINVAL, -ENOMEM.
FatalCodes == {-22, -12}
\* What dav1d_send_data and dav1d_get_picture may answer.
EngineStatuses == {0, -AGAIN} \cup FatalCodes
\* dav1d_send_data answers 0 or a negative status; the wrapper's test (lib.rs:99)
\* also covers a positive one.
SendStatuses == EngineStatuses \cup {AGAIN}
\* dav1d_get_picture answers 0 or a negative status; the wrapper's test
\* (lib.rs:112) also covers a positive one.
GetStatuses == EngineStatuses \cup {AGAIN}
\* What dav1d_open may answer.
OpenStatuses == {0, -12}
\* The engine fills the memory of the f-th frame it hands out; the model names
\* that content f.  Freed marks memory given back to the engine.
Freed == 0

Bufs == 1..MaxBufs
Frames == 1..MaxFrames

VARIABLES
    dec,        \* the Decoder value: "none", "live", "dropped", "panicked"
    handle,     \* the engine handle: "unopened", "open", "closed"
    closes,     \* number of dav1d_close calls
    lateCall,   \* an engine call was made on a handle that is not open
    pc,         \* position inside Decoder::decode: "idle","while","send","get","ret"
    len,        \* decode: buf.len()
    data_sz,    \* decode: data.sz, the bytes the descriptor still holds
    ret,        \* decode: status of the last dav1d_send_data
    gret,       \* decode: error of the last get_picture, 0 when it gave a picture
    pictures,   \* decode: the Vec<Picture> being filled (frame ids)
    collected,  \* frames retrieved successfully during the current decode call
    sent,       \* the current decode call has called dav1d_send_data
    tried,      \* the current decode call has called get_picture
    result,     \* what the last Decoder call returned, if it was decode
    nbufs,      \* borrowed buffers handed to dav1d_data_wrap so far
    own,        \* per buffer: who holds its only reference
    notified,   \* per buffer: invocations of the caller's release closure
    ub,         \* undefined behaviour has been executed
    nframes,    \* frames retrieved so far
    strong,     \* per frame: the Arc's strong count
    picH,       \* per frame: Picture handles held by callers
    planeH,     \* per frame: Plane handles held by callers
    unrefs,     \* per frame: dav1d_picture_unref calls
    pixels,     \* per frame: what its memory holds now
    sd,         \* what the last Decoder call did, if it was send_data
    gp,         \* what the last Decoder call returned, if it was get_picture
    call,       \* the last call of a function of its arguments alone, with them
    out,        \* what that call returned
    meta        \* the Dav1dData descriptor a send_data or decode call builds

decVars == <<dec, handle, closes, lateCall>>
callVars == <<pc, len, data_sz, ret, gret, pictures, collected, sent, tried, result>>
bufVars == <<nbufs, own, notified, ub>>
frameVars == <<nframes, strong, picH, planeH, unrefs, pixels>>
pureVars == <<call, out, meta>>
vars == <<decVars, callVars, bufVars, frameVars, sd, gp, pureVars>>

\* ------------------------------------------------------------ result values
None == [kind |-> "None", code |-> 0, pics |-> <<>>]
Ok(ps) == [kind |-> "Ok", code |-> 0, pics |-> ps]
Err(c) == [kind |-> "Err", code |-> c, pics |-> <<>>]

NoSend == [called |-> FALSE, len |-> 0, created |-> FALSE, copied |-> FALSE,
           submitted |-> FALSE, calls |-> 0, ret |-> 0, result |-> None,
           block |-> "none"]

NoGet == [called |-> FALSE, calls |-> 0, ret |-> 0, result |-> None]

Range(s) == {s[i] : i \in 1..Len(s)}

\* ----------------------------------------------------------- native integers
\* u32 holds 0 .. U32 - 1; c_int holds I32_MIN .. I32_MAX; i64 and ptrdiff_t
\* hold I64_MIN .. I64_MAX.
U32 == 2^IntBits
I32_MIN == 0 - 2^(IntBits - 1)
I32_MAX == 2^(IntBits - 1) - 1
I64_MIN == 0 - 2^(2 * IntBits - 1)
I64_MAX == 2^(2 * IntBits - 1) - 1

\* `x as u32` (lib.rs:257, 301): the low bits of x, read unsigned.
as_u32(x) == x % U32

\* The result of an expression that may panic.
Panic == [panic |-> TRUE, v |-> 0]
Val(x) == [panic |-> FALSE, v |-> x]

\* u32 + u32 and u32 * u32: a result that does not fit panics where the build
\* checks overflow (debug), and wraps where it does not (release).
add_u32(a, b, checks) ==
    IF a + b < U32 THEN Val(a + b)
    ELSE IF checks THEN Panic ELSE Val((a + b) % U32)

mul_u32(a, b, checks) ==
    IF a * b < U32 THEN Val(a * b)
    ELSE IF checks THEN Panic ELSE Val((a * b) % U32)

\* Option<i64>
OptNone == [some |-> FALSE, v |-> 0]
Some(x) == [some |-> TRUE, v |-> x]

\* ------------------------------------------------------------------- Error
\* lib.rs:14-21 with the sign of the platform's EAGAIN not looked at.
is_again_unnormalised(eagain, code) == code = 0 - eagain

\* lib.rs:14-21, on a platform whose EAGAIN is eagain.
is_again_on(eagain, code) ==
    IF eagain < 0 THEN code = eagain ELSE code = 0 - eagain

\* lib.rs:14-21
is_again(code) == is_again_on(AGAIN, code)

\* EAGAIN on Linux, on macOS and the BSDs, and on Haiku (where errno values
\* are negative).
PlatformAgain == {11, 35, -2147483637}
\* Statuses an Error may wrap.
ErrorCodes ==
    {0, -1} \cup FatalCodes \cup PlatformAgain \cup {0 - e : e \in PlatformAgain}

\* ------------------------------------------------------ descriptor metadata
\* lib.rs:86, 134: mem::zeroed()
ZeroProps == [offset |-> 0, timestamp |-> 0, duration |-> 0]
\* What dav1d_data_create and dav1d_data_wrap write when they initialise the
\* descriptor: the engine's "unset" values.  The timestamp one is the
\* sentinel Picture::timestamp tests for (lib.rs:317).
DefaultProps == [offset |-> -1, timestamp |-> I64_MIN, duration |-> 0]
\* What the descriptor's metadata holds after dav1d_data_create or
\* dav1d_data_wrap: untouched where the call fails, the defaults where it
\* initialises the descriptor.
EngineProps == {ZeroProps, DefaultProps}
\* Values a caller passes in Some.
MetaValues == {0, 7}
Options == {OptNone} \cup {Some(x) : x \in MetaValues}

NoMeta == [fn |-> "none", at |-> "none",
           offset |-> OptNone, timestamp |-> OptNone, duration |-> OptNone,
           made |-> ZeroProps, m |-> ZeroProps, seen |-> ZeroProps,
           submits |-> 0, status |-> 0]

NoCall == [fn |-> "none", done |-> FALSE]

\* ------------------------------------------------------------------- Init
DecoderInit ==
    /\ dec = "none" /\ handle = "unopened" /\ closes = 0 /\ lateCall = FALSE
    /\ pc = "idle" /\ len = 0 /\ data_sz = 0 /\ ret = 0 /\ gret = 0
    /\ pictures = <<>> /\ collected = <<>> /\ sent = FALSE /\ tried = FALSE
    /\ result = None
    /\ nbufs = 0
    /\ own = [b \in Bufs |-> "unused"]
    /\ notified = [b \in Bufs |-> 0]
    /\ ub = FALSE
    /\ nframes = 0
    /\ strong = [f \in Frames |-> 0]
    /\ picH = [f \in Frames |-> 0]
    /\ planeH = [f \in Frames |-> 0]
    /\ unrefs = [f \in Frames |-> 0]
    /\ pixels = [f \in Frames |-> Freed]
    /\ sd = NoSend
    /\ gp = NoGet

Init == DecoderInit /\ call = NoCall /\ out = FALSE /\ meta = NoMeta


\* ------------------------------------------------------------ engine calls
\* Every call on the engine handle (dav1d_flush, dav1d_send_data,
\* dav1d_get_picture) notes whether the handle was open when it was made.
engine_call == lateCall \/ handle # "open"

\* The status convention of dav1d_send_data: a non-negative status means the
\* engine took the descriptor's reference (the descriptor is cleared, data.sz
\* becomes 0); on a negative status the reference stays with the caller.
engine_takes(status) == status >= 0

\* The cookie handed to dav1d_data_wrap points at `cb`, a local of the decode
\* call that wrapped buffer b (lib.rs:135-142): it is valid while that call runs.
cookie_valid(b) == pc # "idle" /\ b = nbufs

\* What a call through a dangling cookie can do: run the closure the cookie
\* was made for, run the closure the running decode call has put in the reused
\* stack slot, or run nothing the caller can observe.
DanglingOutcomes == {"own", "live", "none"}

\* lib.rs:37-40: the trampoline the engine calls when the last reference to
\* buffer b is gone; it calls the closure the cookie points at.
release_wrapped_data(ntf, b, o) ==
    IF cookie_valid(b) \/ o = "own"
    THEN [ntf EXCEPT ![b] = @ + 1]
    ELSE IF o = "live" /\ pc # "idle"
         THEN [ntf EXCEPT ![nbufs] = @ + 1]
         ELSE ntf

\* The engine drops the input it still holds (dav1d_flush and dav1d_close do);
\* both run between decode calls, so every cookie is dangling.
engine_drops_input(o) ==
    LET held == {b \in Bufs : own[b] = "engine"} IN
    /\ own' = [b \in Bufs |-> IF b \in held THEN "released" ELSE own[b]]
    /\ notified' = [b \in Bufs |->
                      IF b \in held /\ o = "own" THEN notified[b] + 1 ELSE notified[b]]
    /\ ub' = (ub \/ held # {})
    /\ UNCHANGED nbufs

\* The engine, on one of its threads, finishes with borrowed buffer b and
\* releases its reference: the reference count reaches zero and the trampoline runs.
EngineRelease(b, o) ==
    /\ own[b] = "engine"
    /\ own' = [own EXCEPT ![b] = "released"]
    /\ notified' = release_wrapped_data(notified, b, o)
    /\ ub' = (ub \/ ~cookie_valid(b))
    /\ UNCHANGED <<nbufs, decVars, callVars, frameVars, sd, gp>>
    /\ UNCHANGED pureVars

\* ----------------------------------------------------------------- Decoder
\* lib.rs:49-68
DecoderNew(r) ==
    /\ dec = "none"
    /\ IF r # 0
       THEN dec' = "panicked" /\ UNCHANGED handle
       ELSE dec' = "live" /\ handle' = "open"
    /\ UNCHANGED <<closes, lateCall, callVars, bufVars, frameVars, sd, gp>>
    /\ UNCHANGED pureVars

\* lib.rs:70-74
Flush(o) ==
    /\ dec = "live" /\ pc = "idle"
    /\ lateCall' = engine_call
    /\ engine_drops_input(o)
    /\ result' = None /\ sd' = NoSend /\ gp' = NoGet
    /\ UNCHANGED <<dec, handle, closes, pc, len, data_sz, ret, gret, pictures,
                   collected, sent, tried, frameVars>>
    /\ UNCHANGED pureVars

\* lib.rs:176-180: Drop for Decoder, forgetting to close the handle.
DecoderDrop_noclose(o) ==
    /\ dec = "live" /\ pc = "idle"
    /\ dec' = "dropped"
    /\ result' = None /\ sd' = NoSend /\ gp' = NoGet
    /\ UNCHANGED <<handle, closes, lateCall, pc, len, data_sz, ret, gret, pictures,
                   collected, sent, tried, bufVars, frameVars>>
    /\ UNCHANGED pureVars

\* lib.rs:176-180
DecoderDrop(o) ==
    /\ dec = "live" /\ pc = "idle"
    /\ dec' = "dropped"
    /\ handle' = "closed"
    /\ closes' = closes + 1
    /\ engine_drops_input(o)
    /\ result' = None /\ sd' = NoSend /\ gp' = NoGet
    /\ UNCHANGED <<lateCall, pc, len, data_sz, ret, gret, pictures,
                   collected, sent, tried, frameVars>>
    /\ UNCHANGED pureVars

\* lib.rs:99-103 with the test `ret != 0`.
send_data_result_nonzero(status) ==
    IF status # 0 THEN Err(status) ELSE Ok(<<>>)

\* lib.rs:99-103: if ret < 0 { Err(Error(ret)) } else { Ok(()) }
send_data_result(status) ==
    IF status < 0 THEN Err(status) ELSE Ok(<<>>)

\* lib.rs:76-105
SendData(l, createOk, status) ==
    /\ dec = "live" /\ pc = "idle"
    /\ lateCall' = engine_call
    /\ sd' = [called |-> TRUE, len |-> l,
              created |-> createOk,              \* line 87: ptr is non-null
              copied |-> TRUE,                   \* line 88, whatever ptr is
              submitted |-> TRUE,                \* line 98
              calls |-> 1,                       \* line 98, outside any loop
              ret |-> status,
              result |-> send_data_result(status),
              block |-> IF ~createOk THEN "none"
                        ELSE IF engine_takes(status) THEN "engine"
                        ELSE "leaked"]           \* no dav1d_data_unref on Err
    /\ ub' = (ub \/ (~createOk /\ l > 0))        \* line 88 writes l bytes through null
    /\ result' = None /\ gp' = NoGet
    /\ UNCHANGED <<dec, handle, closes, pc, len, data_sz, ret, gret, pictures,
                   collected, sent, tried, nbufs, own, notified, frameVars>>
    /\ UNCHANGED pureVars


\* ----------------------------------------------------------------- Picture
\* lib.rs:115-118: a successful retrieval wraps the new frame in a fresh Arc.
\* toCaller: the Picture goes to the caller (get_picture) or into decode's Vec.
NewPicture(toCaller) ==
    LET f == nframes + 1 IN
    /\ nframes' = f
    /\ strong' = [strong EXCEPT ![f] = 1]
    /\ picH' = [picH EXCEPT ![f] = IF toCaller THEN 1 ELSE 0]
    /\ pixels' = [pixels EXCEPT ![f] = f]
    /\ UNCHANGED <<planeH, unrefs>>

\* lib.rs:336-341: Drop for InnerPicture, run by Arc when the strong count of a
\* frame reaches zero: one dav1d_picture_unref, after which the engine may
\* reuse the frame's memory.
InnerPictureDrop(dead) ==
    /\ unrefs' = [f \in Frames |-> IF f \in dead THEN unrefs[f] + 1 ELSE unrefs[f]]
    /\ pixels' = [f \in Frames |-> IF f \in dead THEN Freed ELSE pixels[f]]

\* Drop of one Picture value of each frame in S (lib.rs:189-192: a Picture is
\* an Arc<InnerPicture>): the strong count goes down by one, and the inner
\* value is dropped where it reaches zero.
ArcDrop(S) ==
    /\ strong' = [f \in Frames |-> IF f \in S THEN strong[f] - 1 ELSE strong[f]]
    /\ InnerPictureDrop({f \in S : strong[f] = 1})

\* lib.rs:189: #[derive(Clone)] on Picture clones the Arc.
PictureClone(f) ==
    /\ picH[f] > 0 /\ strong[f] < MaxHandles
    /\ strong' = [strong EXCEPT ![f] = @ + 1]
    /\ picH' = [picH EXCEPT ![f] = @ + 1]
    /\ UNCHANGED <<nframes, planeH, unrefs, pixels,
                   decVars, callVars, bufVars, sd, gp>>
    /\ UNCHANGED pureVars

\* lib.rs:277-279 with a Plane that borrows the frame instead of cloning the
\* Picture.
PicturePlane_borrows(f) ==
    /\ picH[f] > 0 /\ strong[f] < MaxHandles
    /\ planeH' = [planeH EXCEPT ![f] = @ + 1]
    /\ UNCHANGED <<nframes, strong, picH, unrefs, pixels,
                   decVars, callVars, bufVars, sd, gp>>
    /\ UNCHANGED pureVars

\* lib.rs:277-279: Plane(self.clone(), component)
PicturePlane(f) ==
    /\ picH[f] > 0 /\ strong[f] < MaxHandles
    /\ strong' = [strong EXCEPT ![f] = @ + 1]
    /\ planeH' = [planeH EXCEPT ![f] = @ + 1]
    /\ UNCHANGED <<nframes, picH, unrefs, pixels,
                   decVars, callVars, bufVars, sd, gp>>
    /\ UNCHANGED pureVars

\* lib.rs:231-232: #[derive(Clone)] on Plane clones the Picture inside it.
PlaneClone(f) ==
    /\ planeH[f] > 0 /\ strong[f] < MaxHandles
    /\ strong' = [strong EXCEPT ![f] = @ + 1]
    /\ planeH' = [planeH EXCEPT ![f] = @ + 1]
    /\ UNCHANGED <<nframes, picH, unrefs, pixels,
                   decVars, callVars, bufVars, sd, gp>>
    /\ UNCHANGED pureVars

\* A caller drops a Picture handle (lib.rs:189-192).
PictureDrop(f) ==
    /\ picH[f] > 0
    /\ picH' = [picH EXCEPT ![f] = @ - 1]
    /\ ArcDrop({f})
    /\ UNCHANGED <<nframes, planeH, decVars, callVars, bufVars, sd, gp>>
    /\ UNCHANGED pureVars

\* A caller drops a Plane handle (lib.rs:231-232), and with it the Picture inside.
PlaneDrop(f) ==
    /\ planeH[f] > 0
    /\ planeH' = [planeH EXCEPT ![f] = @ - 1]
    /\ ArcDrop({f})
    /\ UNCHANGED <<nframes, picH, decVars, callVars, bufVars, sd, gp>>
    /\ UNCHANGED pureVars

\* lib.rs:234-243: the bytes a Plane of frame f exposes are the frame's memory.
as_ref(f) == pixels[f]

\* lib.rs:112 with the test `ret <= 0`.
get_failed_nonpositive(status) == status <= 0

\* lib.rs:112: if ret < 0
get_failed(status) == status < 0

\* lib.rs:107-121: one dav1d_get_picture into a zeroed, plain Dav1dPicture
\* (line 110); only the Ok arm wraps it in an InnerPicture, the value whose
\* Drop unreferences the frame.
GetPicture(status) ==
    /\ dec = "live" /\ pc = "idle"
    /\ lateCall' = engine_call
    /\ IF get_failed(status)
       THEN /\ gp' = [called |-> TRUE, calls |-> 1, ret |-> status,
                      result |-> Err(status)]
            /\ UNCHANGED frameVars
       ELSE /\ nframes < MaxFrames
            /\ gp' = [called |-> TRUE, calls |-> 1, ret |-> status,
                      result |-> Ok(<<nframes + 1>>)]
            /\ NewPicture(TRUE)
    /\ result' = None /\ sd' = NoSend
    /\ UNCHANGED <<dec, handle, closes, pc, len, data_sz, ret, gret, pictures,
                   collected, sent, tried, bufVars>>
    /\ UNCHANGED pureVars


\* ---------------------------------------------------------- Decoder::decode
\* decode returns without calling dav1d_data_unref on `data` (lib.rs:158, 171):
\* a reference the descriptor still holds is never given back.
forget_descriptor(o) ==
    [o EXCEPT ![nbufs] = IF @ = "desc" THEN "leaked" ELSE @]

\* lib.rs:131-153: wrap the caller's buffer, set the metadata, start with an
\* empty Vec.  dav1d_data_wrap's status is ignored (line 137): when it fails,
\* `data` stays zeroed and no buffer is registered.
DecodeBegin(l, wrapOk) ==
    /\ dec = "live" /\ pc = "idle"
    /\ nbufs < MaxBufs
    /\ nbufs' = nbufs + 1
    /\ own' = [own EXCEPT ![nbufs + 1] = IF wrapOk THEN "desc" ELSE "nowrap"]
    /\ len' = l
    /\ data_sz' = IF wrapOk THEN l ELSE 0
    /\ pictures' = <<>> /\ collected' = <<>>
    /\ sent' = FALSE /\ tried' = FALSE
    /\ ret' = 0 /\ gret' = 0
    /\ result' = None
    /\ pc' = "while"
    /\ sd' = NoSend /\ gp' = NoGet
    /\ UNCHANGED <<decVars, notified, ub, frameVars>>
    /\ UNCHANGED pureVars

\* lib.rs:154 with the test `data.sz >= 0`.
loop_test_nonnegative(sz) == sz >= 0

\* lib.rs:154: while data.sz > 0
loop_test(sz) == sz > 0

DecodeWhile ==
    /\ pc = "while"
    /\ pc' = IF loop_test(data_sz) THEN "send" ELSE "ret"
    /\ UNCHANGED <<decVars, len, data_sz, ret, gret, pictures, collected, sent,
                   tried, result, bufVars, frameVars, sd, gp>>
    /\ UNCHANGED pureVars

\* lib.rs:157 with every negative status fatal (`if ret < 0`).
send_is_fatal_any_negative(r) == r < 0

\* lib.rs:157 with the negation of is_again lost.
send_is_fatal_inverted(r) == r < 0 /\ is_again(r)

\* lib.rs:157: if ret < 0 && !err.is_again()
send_is_fatal(r) == r < 0 /\ ~is_again(r)

\* lib.rs:158 with the collected pictures kept alive (mem::forget) on abort.
dropped_on_abort_forgotten(ps) == {}

\* lib.rs:158: `return Err(err)` drops the Vec and every Picture in it.
dropped_on_abort(ps) == Range(ps)

\* lib.rs:155-159
DecodeSend(status) ==
    /\ pc = "send"
    /\ lateCall' = engine_call
    /\ sent' = TRUE
    /\ data_sz' = IF engine_takes(status) THEN 0 ELSE data_sz
    /\ IF send_is_fatal(status)
       THEN /\ pc' = "idle"
            /\ result' = Err(status)
            /\ ret' = status
            /\ pictures' = <<>>
            /\ picH' = picH
            /\ ArcDrop(dropped_on_abort(pictures))
            /\ own' = forget_descriptor(own)
       ELSE /\ pc' = "get"
            /\ ret' = status
            /\ own' = IF engine_takes(status)
                      THEN [own EXCEPT ![nbufs] = "engine"] ELSE own
            /\ UNCHANGED <<result, pictures, strong, picH, unrefs, pixels>>
    /\ UNCHANGED <<dec, handle, closes, len, gret, collected, tried,
                   nbufs, notified, ub, nframes, planeH, sd, gp>>
    /\ UNCHANGED pureVars

\* lib.rs:161 with the new picture put at the front (pictures.insert(0, p)).
DecodeGetOk_prepends ==
    /\ nframes < MaxFrames
    /\ NewPicture(FALSE)
    /\ pictures' = <<nframes + 1>> \o pictures
    /\ collected' = Append(collected, nframes + 1)
    /\ pc' = "while"
    /\ gret' = 0
    /\ UNCHANGED <<result, own, ret>>

\* lib.rs:161: Ok(p) => pictures.push(p)
DecodeGetOk ==
    /\ nframes < MaxFrames
    /\ NewPicture(FALSE)
    /\ pictures' = Append(pictures, nframes + 1)
    /\ collected' = Append(collected, nframes + 1)
    /\ pc' = "while"
    /\ gret' = 0
    /\ UNCHANGED <<result, own, ret>>

\* lib.rs:162-168 with the error propagated to the caller (`?`) when it is
\* not try-again.
DecodeGetErr_propagates(e) ==
    IF is_again(e)
    THEN /\ pc' = "while"
         /\ gret' = e
         /\ UNCHANGED <<result, pictures, collected, own, frameVars, ret>>
    ELSE /\ pc' = "idle"
         /\ result' = Err(e)
         /\ ret' = 0 /\ gret' = 0
         /\ pictures' = <<>>
         /\ ArcDrop(Range(pictures))
         /\ own' = forget_descriptor(own)
         /\ UNCHANGED <<collected, nframes, picH, planeH>>

\* lib.rs:162-168 with every retrieval error retried (`continue` on both arms).
DecodeGetErr_retries(e) ==
    /\ pc' = "while"
    /\ gret' = e
    /\ UNCHANGED <<result, pictures, collected, own, frameVars, ret>>

\* lib.rs:162-168: Err(e) => if e.is_again() { continue } else { break }
DecodeGetErr(e) ==
    /\ pc' = IF is_again(e) THEN "while" ELSE "ret"
    /\ gret' = e
    /\ UNCHANGED <<result, pictures, collected, own, frameVars, ret>>

\* lib.rs:160-169, through get_picture (lib.rs:107-121)
DecodeGet(status) ==
    /\ pc = "get"
    /\ lateCall' = engine_call
    /\ tried' = TRUE
    /\ IF get_failed(status) THEN DecodeGetErr(status) ELSE DecodeGetOk
    /\ UNCHANGED <<dec, handle, closes, len, data_sz, sent,
                   nbufs, notified, ub, sd, gp>>
    /\ UNCHANGED pureVars

\* lib.rs:171: Ok(pictures); the Pictures move to the caller.
DecodeReturn ==
    /\ pc = "ret"
    /\ pc' = "idle"
    /\ result' = Ok(pictures)
    /\ picH' = [f \in Frames |-> IF f \in Range(pictures) THEN picH[f] + 1 ELSE picH[f]]
    /\ pictures' = <<>>
    /\ own' = forget_descriptor(own)
    /\ ret' = 0 /\ gret' = 0
    /\ UNCHANGED <<decVars, len, data_sz, collected, sent, tried,
                   nbufs, notified, ub, nframes, strong, planeH, unrefs, pixels,
                   sd, gp>>
    /\ UNCHANGED pureVars

\* ------------------------------------------------- Error::is_again, called
IsAgain ==
    /\ call.fn = "is_again" /\ ~call.done
    /\ call' = [call EXCEPT !.done = TRUE]
    /\ out' = is_again_on(call.eagain, call.code)
    /\ UNCHANGED <<decVars, callVars, bufVars, frameVars, sd, gp, meta>>

\* ------------------------------------------- Picture: metadata and geometry
\* The fields of the native Dav1dPicture these functions read: p.h (c_int),
\* p.layout, stride (two ptrdiff_t slots) and m.timestamp (i64).
Heights == I32_MIN..I32_MAX
Layouts == 0..4
Strides == {-1, 0, 1, 3, U32 \div 2, U32 - 1, U32 + 3, I64_MAX}
Timestamps == I64_MIN..I64_MAX
Components == {"Y", "U", "V"}

\* lib.rs:315-322 with the sentinel test left out.
timestamp_unfiltered(ts) == Some(ts)

\* lib.rs:315-322
timestamp(ts) == IF ts = I64_MIN THEN OptNone ELSE Some(ts)

\* lib.rs:300-302: pic.p.h as u32
height(pic) == as_u32(pic.h)

\* lib.rs:304-313
pixel_layout(pic) ==
    CASE pic.layout = 0 -> "I400"
      [] pic.layout = 1 -> "I420"
      [] pic.layout = 2 -> "I422"
      [] pic.layout = 3 -> "I444"
      [] OTHER -> "Unknown"

\* lib.rs:252-258: slot 0 for Y, slot 1 for U and V; pic.stride[s] as u32
stride(pic, component) ==
    LET s == IF component = "Y" THEN 0 ELSE 1 IN
    as_u32(pic.stride[s + 1])

\* lib.rs:265-275 with the I420 chroma height rounded down (height / 2).
plane_data_geometry_floor(pic, component, checks) ==
    LET h == IF component = "Y" THEN Val(height(pic))
             ELSE CASE pixel_layout(pic) = "I420" -> Val(height(pic) \div 2)
                    [] pixel_layout(pic) \in {"I400", "I422", "I444"} ->
                         Val(height(pic))
                    [] OTHER -> Panic
    IN [panic |-> h.panic, stride |-> stride(pic, component), height |-> h.v]

\* lib.rs:265-275: (stride, height) of a component; unreachable!() on the
\* chroma of an Unknown layout.
plane_data_geometry(pic, component, checks) ==
    LET h == IF component = "Y" THEN Val(height(pic))
             ELSE CASE pixel_layout(pic) = "I420" ->
                         LET sum == add_u32(height(pic), 1, checks) IN
                         IF sum.panic THEN Panic ELSE Val(sum.v \div 2)
                    [] pixel_layout(pic) \in {"I400", "I422", "I444"} ->
                         Val(height(pic))
                    [] OTHER -> Panic
    IN [panic |-> h.panic, stride |-> stride(pic, component), height |-> h.v]

\* lib.rs:234-243: the length of the slice, (stride * height) as usize; the
\* product is a u32, and the widening to usize changes nothing.
as_ref_len(pic, component, checks) ==
    LET g == plane_data_geometry(pic, component, checks) IN
    IF g.panic THEN Panic ELSE mul_u32(g.stride, g.height, checks)

Timestamp ==
    /\ call.fn = "timestamp" /\ ~call.done
    /\ call' = [call EXCEPT !.done = TRUE]
    /\ out' = timestamp(call.ts)
    /\ UNCHANGED <<decVars, callVars, bufVars, frameVars, sd, gp, meta>>

PlaneDataGeometry ==
    /\ call.fn = "plane_data_geometry" /\ ~call.done
    /\ call' = [call EXCEPT !.done = TRUE]
    /\ out' = plane_data_geometry(call.pic, call.component, call.checks)
    /\ UNCHANGED <<decVars, callVars, bufVars, frameVars, sd, gp, meta>>

PlaneAsRef ==
    /\ call.fn = "as_ref" /\ ~call.done
    /\ call' = [call EXCEPT !.done = TRUE]
    /\ out' = as_ref_len(call.pic, call.component, call.checks)
    /\ UNCHANGED <<decVars, callVars, bufVars, frameVars, sd, gp, meta>>

\* The native records a Picture may wrap.
NativePictures == [h : Heights, layout : Layouts, stride : Strides \X Strides]

\* The calls of these functions, on every input; `checks` is whether the
\* build checks arithmetic overflow.
PureCalls ==
    [fn : {"is_again"}, eagain : PlatformAgain, code : ErrorCodes, done : {FALSE}]
    \cup [fn : {"timestamp"}, ts : Timestamps, done : {FALSE}]
    \cup [fn : {"plane_data_geometry", "as_ref"}, pic : NativePictures,
          component : Components, checks : BOOLEAN, done : {FALSE}]

\* -------------------------------------- the descriptor of a submitting call
\* lib.rs:89-97, 144-152 with the duration written to the timestamp field.
set_metadata_misplaced(m, offset, timestamp_, duration) ==
    [offset |-> IF offset.some THEN offset.v ELSE m.offset,
     timestamp |-> IF duration.some THEN duration.v
                   ELSE IF timestamp_.some THEN timestamp_.v ELSE m.timestamp,
     duration |-> m.duration]

\* lib.rs:89-97, 144-152: each `if let Some(x) = x { data.m.x = x }`
set_metadata(m, offset, timestamp_, duration) ==
    [offset |-> IF offset.some THEN offset.v ELSE m.offset,
     timestamp |-> IF timestamp_.some THEN timestamp_.v ELSE m.timestamp,
     duration |-> IF duration.some THEN duration.v ELSE m.duration]

\* lib.rs:86, 134: let mut data: Dav1dData = mem::zeroed(), in send_data or in
\* decode (fn) called with these three attributes.
MetaZeroed(fn, offset, timestamp_, duration) ==
    /\ meta.at \in {"none", "done"}
    /\ meta' = [fn |-> fn, at |-> "zeroed",
                offset |-> offset, timestamp |-> timestamp_, duration |-> duration,
                made |-> ZeroProps, m |-> ZeroProps, seen |-> ZeroProps,
                submits |-> 0, status |-> 0]
    /\ UNCHANGED <<decVars, callVars, bufVars, frameVars, sd, gp, call, out>>

\* lib.rs:87, 137-143: dav1d_data_create(&mut data, len) or
\* dav1d_data_wrap(&mut data, ..) fills the descriptor in.
MetaMake(props) ==
    /\ meta.at = "zeroed"
    /\ meta' = [meta EXCEPT !.at = "made", !.made = props, !.m = props]
    /\ UNCHANGED <<decVars, callVars, bufVars, frameVars, sd, gp, call, out>>

\* lib.rs:89-97, 144-152
MetaSet ==
    /\ meta.at = "made"
    /\ meta' = [meta EXCEPT !.at = "set",
                  !.m = set_metadata(meta.m, meta.offset, meta.timestamp,
                                     meta.duration)]
    /\ UNCHANGED <<decVars, callVars, bufVars, frameVars, sd, gp, call, out>>

\* lib.rs:98, 155: dav1d_send_data(self.dec, &mut data) sees the metadata as
\* it is now.  send_data submits once; decode submits the same descriptor
\* again after a try-again answer (lib.rs:154-169: nothing in the loop writes
\* data.m).
MetaSubmit(status) ==
    /\ meta.at = "set"
    /\ meta.submits < MaxSubmits
    /\ meta' = [meta EXCEPT
                  !.seen = meta.m,
                  !.submits = @ + 1,
                  !.status = status,
                  !.at = IF meta.fn = "decode" /\ is_again(status)
                            /\ meta.submits + 1 < MaxSubmits
                         THEN "set" ELSE "done"]
    /\ UNCHANGED <<decVars, callVars, bufVars, frameVars, sd, gp, call, out>>

\* --------------------------------------------------------------------- Next
\* The thread that owns the Decoder.
DecoderThread ==
    \/ \E r \in OpenStatuses : DecoderNew(r)
    \/ \E o \in DanglingOutcomes : DecoderDrop(o)
    \/ \E s \in GetStatuses : GetPicture(s)
    \/ \E l \in 0..MaxLen, w \in BOOLEAN : DecodeBegin(l, w)
    \/ DecodeWhile
    \/ \E s \in EngineStatuses : DecodeSend(s)
    \/ \E s \in EngineStatuses : DecodeGet(s)
    \/ DecodeReturn

\* The Decoder's owner and the engine's threads: the submit/retrieve state
\* machine and the life of the input buffers.
Next ==
    \/ DecoderThread
    \/ \E o \in DanglingOutcomes : Flush(o)
    \/ \E l \in 0..MaxLen, c \in BOOLEAN, s \in SendStatuses : SendData(l, c, s)
    \/ \E b \in Bufs, o \in DanglingOutcomes : EngineRelease(b, o)

Spec == Init /\ [][Next]_vars

\* The Decoder's owner and the threads that hold Picture and Plane handles:
\* the life of the frames.
PictureNext ==
    \/ DecoderThread
    \/ \E f \in Frames : PictureClone(f)
    \/ \E f \in Frames : PicturePlane(f)
    \/ \E f \in Frames : PlaneClone(f)
    \/ \E f \in Frames : PictureDrop(f)
    \/ \E f \in Frames : PlaneDrop(f)

PictureSpec == Init /\ [][PictureNext]_vars

\* The decoder thread keeps running (WF on the steps of decode), and the engine
\* does not answer for ever without once consuming the buffer or reporting a
\* fatal status (SF: such an answer is possible at every submit and retrieve).
DecodeStep ==
    \/ DecodeWhile
    \/ \E s \in EngineStatuses : DecodeSend(s)
    \/ \E s \in EngineStatuses : DecodeGet(s)
    \/ DecodeReturn

EngineSettles ==
    \/ \E s \in {0} \cup FatalCodes : DecodeSend(s)
    \/ \E s \in FatalCodes : DecodeGet(s)

LiveSpec == Spec /\ WF_vars(DecodeStep) /\ SF_vars(EngineSettles)

\* The functions of their arguments alone: the error classifier and the
\* Picture accessors, on every input.
PureInit == DecoderInit /\ call \in PureCalls /\ out = FALSE /\ meta = NoMeta

PureNext ==
    \/ IsAgain
    \/ Timestamp
    \/ PlaneDataGeometry
    \/ PlaneAsRef

PureSpec == PureInit /\ [][PureNext]_vars

\* The descriptor send_data and decode build and submit.
DataNext ==
    \/ \E fn \in {"send_data", "decode"}, o \in Options, t \in Options,
          d \in Options : MetaZeroed(fn, o, t, d)
    \/ \E props \in EngineProps : MetaMake(props)
    \/ MetaSet
    \/ \E s \in EngineStatuses : MetaSubmit(s)

DataSpec == Init /\ [][DataNext]_vars

\* ------------------------------------------------------------------ claims
\* The try-again status of the engine, and the fatal ones.
TryAgain == 0 - AGAIN
Fatal(status) == status < 0 /\ status # TryAgain

\* Live handles of frame f: callers' Pictures and Planes, and decode's Vec.
Handles(f) == picH[f] + planeH[f] + (IF f \in Range(pictures) THEN 1 ELSE 0)

\* C1: in decode, a submission that returns a fatal status makes decode return
\* Err with exactly that status at once (no retrieval follows), and every
\* picture collected earlier in the call is dropped, not handed to the caller.
C1_FatalSubmitAborts ==
    [][(pc = "send" /\ pc' # "send" /\ Fatal(ret'))
        => /\ pc' = "idle"
           /\ result' = Err(ret')
           /\ tried' = tried
           /\ \A f \in Range(pictures) :
                strong'[f] = 0 /\ picH'[f] = 0 /\ unrefs'[f] = 1]_vars

C1_Witness ==
    /\ pc = "idle" /\ result.kind = "Err"
    /\ Len(collected) > 0
    /\ \A f \in Range(collected) : unrefs[f] = 1

\* C2: in decode, a retrieval error is never what decode returns: try-again
\* goes round the loop, a fatal one ends the loop and decode returns Ok with
\* the pictures collected so far; decode returns Err only from a fatal submission.
C2_RetrievalErrorNotReturned ==
    [][/\ (pc = "get" /\ pc' # "get")
          => /\ result' = None
             /\ gret' = TryAgain => pc' = "while"
             /\ Fatal(gret') => pc' = "ret"
       /\ (pc = "ret" /\ pc' # "ret")
          => /\ pc' = "idle"
             /\ result' = Ok(collected)
       /\ (result'.kind = "Err" /\ result.kind # "Err")
          => pc = "send" /\ Fatal(ret') /\ result'.code = ret']_vars

C2_Witness ==
    /\ pc = "idle" /\ result.kind = "Ok"
    /\ data_sz > 0
    /\ Len(result.pics) > 0

\* C3: for every decode call that registered a borrowed buffer, the release
\* closure runs exactly once, and not before the engine is done with the
\* buffer: never twice, never while the descriptor or the engine holds the
\* buffer, and once the call has returned and the engine holds it no more, it
\* has run.
C3_ReleaseExactlyOnce ==
    \A b \in 1..nbufs :
        own[b] # "nowrap"
        => /\ notified[b] <= 1
           /\ notified[b] = 1 => own[b] = "released"
           /\ (~cookie_valid(b) /\ own[b] # "engine") => notified[b] = 1

\* C4: for every frame retrieved (those decode collected and then discarded
\* included), under every interleaving of clones, plane views and drops,
\* dav1d_picture_unref has run exactly once when no Picture or Plane handle
\* of the frame is left, and not at all while one is.
C4_UnrefExactlyOnceAtLastDrop ==
    \A f \in 1..nframes :
        /\ unrefs[f] <= 1
        /\ Handles(f) > 0 => unrefs[f] = 0
        /\ Handles(f) = 0 => unrefs[f] = 1

C4_Witness ==
    \E f, g \in 1..nframes :
        /\ result.kind = "Err" /\ f \in Range(collected) /\ unrefs[f] = 1
        /\ g # f /\ planeH[g] > 0 /\ picH[g] = 0 /\ unrefs[g] = 0

\* C5: a Plane view stays readable and shows the bytes the frame was produced
\* with while the view lives, also after every Picture of the frame and the
\* Decoder have been dropped: the frame is not unreferenced before the view is.
C5_PlaneKeepsFrameAlive ==
    \A f \in 1..nframes :
        planeH[f] > 0 => unrefs[f] = 0 /\ as_ref(f) = f

C5_Witness ==
    \E f \in 1..nframes :
        planeH[f] > 0 /\ picH[f] = 0 /\ dec = "dropped" /\ as_ref(f) = f

\* C6: a constructed Decoder's engine handle is closed exactly once, when the
\* Decoder is dropped and not before, whatever calls were made on it, and no
\* engine call is made on a handle that is not open.
C6_ClosedOnceAtDrop ==
    /\ dec = "dropped" => closes = 1 /\ handle = "closed"
    /\ dec = "live" => closes = 0 /\ handle = "open"
    /\ dec \in {"none", "panicked"} => closes = 0 /\ handle = "unopened"
    /\ ~lateCall

C6_Witness ==
    /\ dec = "dropped" /\ closes = 1
    /\ nbufs > 0 /\ nframes > 0

\* C7: decode of a zero-length buffer returns Ok with no pictures and makes no
\* submit and no retrieve call, whatever the engine would have answered.
C7_EmptyBufferShortCircuits ==
    len = 0
    => /\ pc # "idle" => ~sent /\ ~tried
       /\ result.kind # "None" => result = Ok(<<>>) /\ ~sent /\ ~tried

C7_Witness ==
    /\ pc = "idle" /\ result.kind = "Ok" /\ len = 0
    /\ own[nbufs] = "leaked"

\* C8: under the fairness of LiveSpec every decode call returns; the loop is
\* left only with the remaining-byte counter at zero, on a fatal submission
\* (straight to Err) or on a fatal retrieval; and a try-again answer to a
\* submit or a retrieve changes nothing the loop tests, so an engine that
\* answers try-again for ever keeps it looping.
C8_DecodeTerminates ==
    /\ (pc # "idle") ~> (pc = "idle")
    /\ [][/\ (pc \in {"while", "get"} /\ pc' = "ret")
             => data_sz' = 0 \/ (pc = "get" /\ Fatal(gret'))
          /\ (pc \in {"while", "send", "get"} /\ pc' = "idle")
             => pc = "send" /\ Fatal(ret')
          /\ (pc = "send" /\ pc' # "send" /\ ret' = TryAgain)
             => pc' = "get" /\ data_sz' = data_sz /\ data_sz > 0
          /\ (pc = "get" /\ pc' # "get" /\ gret' = TryAgain)
             => pc' = "while" /\ data_sz' = data_sz
          /\ (pc = "while" /\ pc' # "while" /\ data_sz > 0)
             => pc' = "send"]_vars

C8_Witness ==
    /\ pc = "while" /\ data_sz > 0
    /\ ret = TryAgain /\ gret = TryAgain

\* C9: when dav1d_data_create gives no storage, send_data returns Err and
\* makes neither the byte copy nor the engine submission.
C9_AllocFailureIsError ==
    (sd.called /\ ~sd.created)
    => sd.result.kind = "Err" /\ ~sd.copied /\ ~sd.submitted

\* C10: the storage block send_data created is, when send_data has returned,
\* owned by the engine or released: never left allocated with no owner.
C10_BlockNeverLeaked ==
    (sd.called /\ sd.created) => sd.block \in {"engine", "released"}

\* C11: send_data calls dav1d_send_data exactly once per invocation, whatever
\* the status (no retry on try-again), and returns Err carrying the engine's
\* status unchanged when it is negative, Ok(()) when it is zero or positive.
C11_SendDataSubmitsOnce ==
    sd.called
    => /\ sd.calls = 1
       /\ sd.ret < 0 => sd.result = Err(sd.ret)
       /\ sd.ret >= 0 => sd.result = Ok(<<>>)

C11_Witness ==
    /\ sd.called /\ sd.calls = 1
    /\ sd.ret = TryAgain /\ sd.result = Err(TryAgain)

\* C12: get_picture calls dav1d_get_picture exactly once per invocation; it
\* creates a Picture exactly when the status is not negative; on a negative
\* status it returns Err with that status, creates no Picture, and no
\* dav1d_picture_unref is ever issued for the failed attempt.
C12_GetPictureOnceNoUnrefOnError ==
    [][/\ (gp'.called /\ gp' # gp)
          => /\ gp'.calls = 1
             /\ IF gp'.ret < 0
                THEN /\ gp'.result = Err(gp'.ret)
                     /\ UNCHANGED <<nframes, strong, picH, planeH, unrefs, pixels>>
                ELSE /\ gp'.result = Ok(<<nframes'>>)
                     /\ nframes' = nframes + 1
                     /\ strong'[nframes'] = 1 /\ picH'[nframes'] = 1
                     /\ unrefs' = unrefs
       /\ \A f \in Frames : f > nframes' => unrefs'[f] = 0 /\ strong'[f] = 0]_vars

C12_Witness ==
    /\ gp.called /\ gp.calls = 1
    /\ Fatal(gp.ret) /\ gp.result = Err(gp.ret)
    /\ nframes = 1 /\ strong[1] = 1 /\ unrefs[2] = 0

\* C13, as stated: at every dav1d_send_data made by send_data or decode, each
\* of offset, timestamp and duration in the descriptor equals the caller's
\* value where Some(v) was passed and zero where None was passed.
C13_UnsetMetadataIsZero ==
    meta.submits > 0
    => /\ meta.seen.offset = IF meta.offset.some THEN meta.offset.v ELSE 0
       /\ meta.seen.timestamp = IF meta.timestamp.some THEN meta.timestamp.v ELSE 0
       /\ meta.seen.duration = IF meta.duration.some THEN meta.duration.v ELSE 0

\* C13, amended: at every dav1d_send_data made by send_data or decode, each
\* of offset, timestamp and duration in the descriptor equals the caller's
\* value where Some(v) was passed, and where None was passed it is what
\* dav1d_data_create or dav1d_data_wrap left in the field (the wrapper zeroes
\* the descriptor before that call and writes nothing to the field after it).
C13_UnsetMetadataIsEnginesDefault ==
    meta.submits > 0
    => /\ meta.seen.offset =
            IF meta.offset.some THEN meta.offset.v ELSE meta.made.offset
       /\ meta.seen.timestamp =
            IF meta.timestamp.some THEN meta.timestamp.v ELSE meta.made.timestamp
       /\ meta.seen.duration =
            IF meta.duration.some THEN meta.duration.v ELSE meta.made.duration

C13_Witness ==
    /\ meta.fn = "decode" /\ meta.submits = 2
    /\ meta.offset = Some(7) /\ meta.seen.offset = 7
    /\ ~meta.timestamp.some /\ meta.seen.timestamp = I64_MIN
    /\ meta.duration = Some(0) /\ meta.seen.duration = 0

\* C14: for every height the c_int height field holds as a picture height
\* (0 .. I32_MAX) and every layout of I400, I420, I422, I444,
\* plane_data_geometry returns the frame height for Y, one and the same height
\* for U and V, which is the frame height under I400, I422 and I444 and the
\* half rounded up under I420; the sum (height + 1) fits a u32, so the result
\* is the same with and without overflow checks and nothing panics.
C14_ChromaHeight ==
    (/\ call.fn = "plane_data_geometry" /\ call.done
     /\ call.pic.h >= 0
     /\ pixel_layout(call.pic) # "Unknown")
    => LET h == call.pic.h
           chroma(c) == plane_data_geometry(call.pic, c, call.checks).height
       IN /\ ~out.panic
          /\ h + 1 < U32
          /\ call.component = "Y" => out.height = h
          /\ call.component # "Y" =>
               /\ out.height = chroma("U") /\ out.height = chroma("V")
               /\ pixel_layout(call.pic) \in {"I400", "I422", "I444"}
                    => out.height = h
               /\ pixel_layout(call.pic) = "I420"
                    => 2 * out.height >= h /\ 2 * out.height <= h + 1

C14_Witness ==
    /\ call.fn = "plane_data_geometry" /\ call.done
    /\ call.pic.h = I32_MAX /\ pixel_layout(call.pic) = "I420"
    /\ call.component = "V" /\ call.checks
    /\ ~out.panic /\ 2 * out.height = I32_MAX + 1

\* The component is one the layout has: Y under every known layout, U and V
\* under I420, I422 and I444.
Present(pic, component) ==
    IF component = "Y" THEN pixel_layout(pic) # "Unknown"
    ELSE pixel_layout(pic) \in {"I420", "I422", "I444"}

\* C15: for every Picture and every component its layout has, the slice
\* Plane::as_ref returns is stride(c) * effective_height(c) bytes long, with
\* stride(Y) the native stride slot 0 and stride(U) = stride(V) slot 1: the
\* product of the native values as numbers, with no wraparound at 32 bits and
\* no truncation of the stride, for every non-negative stride and height the
\* native record can hold.
C15_SliceLengthIsProduct ==
    (/\ call.fn = "as_ref" /\ call.done
     /\ Present(call.pic, call.component)
     /\ call.pic.h >= 0
     /\ call.pic.stride[1] >= 0 /\ call.pic.stride[2] >= 0)
    => LET native == call.pic.stride[IF call.component = "Y" THEN 1 ELSE 2]
           rows == IF call.component # "Y" /\ pixel_layout(call.pic) = "I420"
                   THEN (call.pic.h + 1) \div 2 ELSE call.pic.h
       IN ~out.panic /\ out.v = native * rows

\* The magnitude of the platform's EAGAIN, negated: the engine's try-again
\* status on that platform.
NegatedMagnitude(eagain) == IF eagain < 0 THEN eagain ELSE 0 - eagain

\* C16: is_again is true exactly when the wrapped status is the negated
\* magnitude of the platform's EAGAIN, whether the platform defines EAGAIN
\* positive or negative; it is false for every other status: the positive
\* try-again value, zero, and the other negative codes.
C16_IsAgainSignNormalised ==
    (call.fn = "is_again" /\ call.done)
    => /\ out = (call.code = NegatedMagnitude(call.eagain))
       /\ call.code >= 0 => out = FALSE
       /\ call.code \in FatalCodes \cup {-1} => out = FALSE

C16_Witness ==
    /\ call.fn = "is_again" /\ call.done
    /\ call.eagain < 0 /\ call.code = call.eagain
    /\ out = TRUE

\* C17: Picture::timestamp returns None exactly when the native timestamp is
\* i64::MIN, and Some(t) with t the native value for every other one: the
\* sentinel is never returned inside Some.
C17_TimestampSentinel ==
    (call.fn = "timestamp" /\ call.done)
    => /\ ~out.some <=> call.ts = I64_MIN
       /\ out.some => out.v = call.ts /\ out.v # I64_MIN

C17_Witness ==
    /\ call.fn = "timestamp" /\ call.done
    /\ call.ts = I64_MIN /\ out = OptNone

\* C18: the engine never calls the release trampoline for a buffer after the
\* decode call that registered it has returned: when decode has returned, by
\* Ok or by Err, the engine holds no reference to the wrapped buffer (and so
\* none to the cookie, which points at a local of that call), and every
\* release by the engine happens while the cookie is valid.
C18_NoReleaseAfterReturn ==
    [][\A b \in Bufs :
         /\ (b <= nbufs' /\ ~cookie_valid(b)') => own'[b] # "engine"
         /\ (own[b] = "engine" /\ own'[b] = "released") => cookie_valid(b)]_vars

\* C19: decode's loop alternates strictly.  Each iteration makes one
\* submission attempt, with the descriptor of this call, and then, unless the
\* submission was fatal, one retrieval attempt: after a successful submission
\* and after a try-again one alike.  A retrieval is made only right after a
\* submission, a submission only from the loop test with bytes remaining; and
\* after a successful retrieval the loop test runs again and, while the
\* remaining-byte counter is above zero, a new submission follows.
C19_StrictAlternation ==
    [][/\ (pc = "send" /\ pc' # "send")
          => /\ sent' /\ nbufs' = nbufs
             /\ pc' = IF Fatal(ret') THEN "idle" ELSE "get"
       /\ (pc = "get" /\ pc' # "get")
          => /\ tried' /\ nbufs' = nbufs
             /\ pc' \in {"while", "ret"}
             /\ nframes' # nframes => pc' = "while"
       /\ (pc' = "get" /\ pc # "get") => pc = "send"
       /\ (pc' = "send" /\ pc # "send") => pc = "while" /\ data_sz > 0
       /\ (pc = "while" /\ pc' # "while")
          => pc' = IF data_sz > 0 THEN "send" ELSE "ret"]_vars

C19_Witness ==
    /\ pc = "send" /\ data_sz > 0
    /\ ret = TryAgain /\ Len(collected) = 1

\* C20: when decode returns Ok, the Vec it returns is the sequence of the
\* pictures whose retrieval succeeded during that call, in the order they were
\* retrieved, each once and none left out; its length is the number of
\* successful retrievals of the call.
C20_OkIsRetrievedInOrder ==
    result.kind = "Ok"
    => LET n == Len(collected) IN
       /\ result.pics = collected
       /\ Len(result.pics) = n
       /\ \A i \in 1..n : result.pics[i] = nframes - n + i

C20_Witness ==
    /\ pc = "idle" /\ result.kind = "Ok"
    /\ Len(result.pics) = 2 /\ result.pics[1] < result.pics[2]

====
